---- MODULE Spec2Model ----
(***************************************************************************)
(* Model of platform/webos/init.c: the webOS jailer provisioning code.     *)
(*                                                                         *)
(*   read_webos_release   - the Identifier Reader                          *)
(*   http_download_file   - the Streaming Downloader ("fetch")             *)
(*   apply_webos_jailer_fix - the Provisioning Orchestrator ("provision")  *)
(*                                                                         *)
(* The program is single threaded; pc is the position of the one thread.   *)
(* Every call into a library (stdio, rjson, net_http, file_path) is an     *)
(* input of the model: its result is drawn with \E from the results the    *)
(* library can give.  RARCH_LOG / RARCH_ERR change no state and are left   *)
(* out.                                                                    *)
(***************************************************************************)
EXTENDS Integers, Sequences, FiniteSets, TLC

(* ------------------------------ bounds --------------------------------- *)

\* longest response body, in bytes
MaxBody == 2
\* most successful net_http_update() steps of one transfer
MaxPolls == 2
\* most tokens rjson_next() hands out before the document ends
MaxTokens == 5

(* ------------------------------ values --------------------------------- *)

\* the null pointer; distinct from every string of Strings
NULL == "NULL"

\* strings that occur in the identifier document
Strings == {"webos_release", "24", ""}

Bytes == {0, 1}

Bodies == UNION {[1..n -> Bytes] : n \in 0..MaxBody}

\* status codes net_http_status() may report
Statuses == {-200, 0, 199, 200, 204, 299, 300, 404, 500}

\* a file of the file system: absent, or present with its bytes
NoFile == [exists |-> FALSE, bytes |-> <<>>]

File(b) == [exists |-> TRUE, bytes |-> b]

\* a buffer pointer: null, or pointing at bytes
NullData == [null |-> TRUE, bytes |-> <<>>]

Data(b) == [null |-> FALSE, bytes |-> b]

home_path == "/media/developer"

temp_path == "/media/developer/temp"

conf_path == "/media/developer/jail_app.conf"

sig_path == "/media/developer/jail_app.conf.sig"

test1_path == "/media/developer/temp/test.1"

test2_path == "/media/developer/temp/test.2"

Paths == {conf_path, sig_path, test1_path, test2_path}

Dirs == {home_path, temp_path}

\* the directory part of a path, as strlcpy / strrchr / *slash = 0 compute it
DirOf(p) == IF p \in {test1_path, test2_path} THEN temp_path ELSE home_path

\* a directory together with the parents path_mkdir creates with it
WithParents(d) == IF d = temp_path THEN {home_path, temp_path} ELSE {d}

conf_url(release) == [sdkVersion |-> release, fileType |-> "conf"]

sig_url(release) == [sdkVersion |-> release, fileType |-> "sig"]

\* C integer division, truncating toward zero
CDiv(a, b) == IF a >= 0 THEN a \div b ELSE -((-a) \div b)

Prefix(s, n) == SubSeq(s, 1, n)

(* ------------------------------ state ---------------------------------- *)

VARIABLES
  pc,             \* position of the thread
  json,           \* the rjson parser: tokens handed out, terminal token seen
  rd,             \* read_webos_release: acquire/release counts of f, buf, json
  release_str,    \* read_webos_release: local release_str
  webos_release,  \* apply_webos_jailer_fix: local webos_release
  release_frees,  \* number of free(webos_release) calls
  found,          \* value of path_is_valid(conf) && path_is_valid(sig)
  msgs,           \* the runloop message queue
  calls,          \* the http_download_file invocations so far: <<url, dst>>
  rets,           \* the values those invocations returned
  success,        \* apply_webos_jailer_fix: local success
  result,         \* the value apply_webos_jailer_fix returned
  dirs,           \* the directories that exist
  fs,             \* the files: Paths -> file
  start,          \* dirs and fs on entry of apply_webos_jailer_fix
  before,         \* dirs and fs on entry of http_download_file
  res,            \* per invocation: acquire/release counts of the handles
  st,             \* http_download_file: what the running invocation saw
  ret             \* http_download_file: the value being returned

vars == <<pc, json, rd, release_str, webos_release, release_frees, found, msgs,
          calls, rets, success, result, dirs, fs, start, before, res, st, ret>>

readerVars == <<json, rd, release_str>>

provVars == <<webos_release, release_frees, found, msgs, calls, rets, success, result>>

diskVars == <<dirs, fs, start, before>>

fetchVars == <<res, st, ret>>

NoRes == [conn_new |-> 0, conn_free |-> 0, http_new |-> 0, http_delete |-> 0,
          data_new |-> 0, data_free |-> 0, out_open |-> 0, out_close |-> 0]

\* the locals of http_download_file before anything was observed
NoSt == [mkdir_failed |-> FALSE, conn_ok |-> FALSE, http_ok |-> FALSE, polls |-> 0, done |-> FALSE,
         update_failed |-> FALSE, error_read |-> FALSE, error |-> FALSE,
         status_read |-> FALSE, status |-> 0,
         data_read |-> FALSE, data |-> NullData, len |-> 0,
         out_ok |-> FALSE, written |-> FALSE, wrote |-> 0]

\* no parser, or one that has handed out no token yet.  toks are the tokens
\* handed out, stack the open containers ("O" object, "A" array, innermost
\* last), key whether the next token of the innermost object is a key, rest
\* what the input left unread by a break would have ended with.
NoJson == [pos |-> 0, end |-> "none", toks |-> <<>>, stack |-> <<>>,
           key |-> FALSE, rest |-> "none"]

\* the invocation that is running (or ran last)
call == Len(calls)

dst_path == calls[call].dst

InitFiles ==
  {f \in [Paths -> {NoFile, File(<<>>), File(<<1>>)}] :
      /\ f[test1_path] # File(<<>>)
      /\ f[test2_path] # File(<<>>)}

Init ==
  /\ pc = "read_fopen"
  /\ json = NoJson
  /\ rd = [f_open |-> 0, f_close |-> 0, buf_new |-> 0, buf_free |-> 0,
           json_new |-> 0, json_free |-> 0]
  /\ release_str = NULL
  /\ webos_release = NULL
  /\ release_frees = 0
  /\ found = FALSE
  /\ msgs = <<>>
  /\ calls = <<>>
  /\ rets = <<>>
  /\ success = FALSE
  /\ result = FALSE
  /\ fs \in InitFiles
  /\ dirs \in SUBSET Dirs
  /\ \A p \in Paths : fs[p].exists => DirOf(p) \in dirs
  /\ \A d \in dirs : WithParents(d) \subseteq dirs
  /\ start = [dirs |-> dirs, fs |-> fs]
  /\ before = start
  /\ res = [i \in 1..2 |-> NoRes]
  /\ st = NoSt
  /\ ret = FALSE

(* ------------------- read_webos_release (lines 135-188) ---------------- *)

TokenTypes == {"RJSON_DONE", "RJSON_ERROR", "RJSON_STRING", "RJSON_NUMBER",
               "RJSON_OBJECT", "RJSON_OBJECT_END", "RJSON_ARRAY", "RJSON_ARRAY_END"}

Terminal == {"RJSON_DONE", "RJSON_ERROR"}

\* a token: its type and, for a string, what rjson_get_string() gives for it
Tokens ==
  {[type |-> "RJSON_STRING", str |-> s] : s \in Strings \cup {NULL}}
    \cup {[type |-> t, str |-> NULL] : t \in TokenTypes \ {"RJSON_STRING"}}

\* the innermost open container, "" at the top level
Top(stack) == IF stack = <<>> THEN "" ELSE stack[Len(stack)]

\* token types that start a JSON value
ValueTypes == {"RJSON_STRING", "RJSON_NUMBER", "RJSON_OBJECT", "RJSON_ARRAY"}

\* the token types a JSON text allows next: one value at the top level, keys
\* and values in turn inside an object, values inside an array
Grammatical(j) ==
  IF j.stack = <<>> THEN (IF j.pos = 0 THEN ValueTypes ELSE {})
  ELSE IF Top(j.stack) = "O"
    THEN (IF j.key THEN {"RJSON_STRING", "RJSON_OBJECT_END"} ELSE ValueTypes)
    ELSE ValueTypes \cup {"RJSON_ARRAY_END"}

\* how the input may end here: in error anywhere, done once no container is open
Endings(j) ==
  {"RJSON_ERROR"} \cup (IF j.stack = <<>> THEN {"RJSON_DONE"} ELSE {})

\* the tokens rjson_next() may return: once the document ended (DONE) or
\* failed (ERROR) it keeps returning that
rjson_next(j) ==
  IF j.end # "none" THEN {[type |-> j.end, str |-> NULL]}
  ELSE {t \in Tokens :
          \/ t.type \in Endings(j)
          \/ j.pos < MaxTokens /\ t.type \in Grammatical(j)}

\* the open containers after a token of type ty
Push(stack, ty) ==
  CASE ty = "RJSON_OBJECT" -> Append(stack, "O")
    [] ty = "RJSON_ARRAY" -> Append(stack, "A")
    [] ty \in {"RJSON_OBJECT_END", "RJSON_ARRAY_END"} -> SubSeq(stack, 1, Len(stack) - 1)
    [] OTHER -> stack

\* the parser after it returned token t
Advance(j, t) ==
  IF t.type \in Terminal THEN [j EXCEPT !.end = t.type]
  ELSE [j EXCEPT !.pos = @ + 1,
                 !.toks = Append(@, t),
                 !.stack = Push(@, t.type),
                 !.key = IF t.type \in {"RJSON_STRING", "RJSON_NUMBER"}
                           THEN Top(j.stack) = "O" /\ ~j.key
                           ELSE Top(Push(j.stack, t.type)) = "O"]

\* line 173: key && strcmp(key, "webos_release") == 0 && val_type == RJSON_STRING
KeyMatches(key, val_type) ==
  key # NULL /\ key = "webos_release" /\ val_type = "RJSON_STRING"

\* lines 137-139: fopen fails, return NULL
ReadFopenFail ==
  /\ pc = "read_fopen"
  /\ webos_release' = NULL
  /\ pc' = "check_release"
  /\ UNCHANGED <<readerVars, release_frees, found, msgs, calls, rets, success,
                 result, diskVars, fetchVars>>

\* line 137: fopen succeeds
ReadFopenOk ==
  /\ pc = "read_fopen"
  /\ rd' = [rd EXCEPT !.f_open = @ + 1]
  /\ pc' = "read_malloc"
  /\ UNCHANGED <<json, release_str, provVars, diskVars, fetchVars>>

\* lines 145-150: malloc fails, fclose, return NULL
ReadMallocFail ==
  /\ pc = "read_malloc"
  /\ rd' = [rd EXCEPT !.f_close = @ + 1]
  /\ webos_release' = NULL
  /\ pc' = "check_release"
  /\ UNCHANGED <<json, release_str, release_frees, found, msgs, calls, rets, success,
                 result, diskVars, fetchVars>>

\* lines 145-154: buf allocated, file read into it and closed
ReadMallocOk ==
  /\ pc = "read_malloc"
  /\ rd' = [rd EXCEPT !.buf_new = @ + 1, !.f_close = @ + 1]
  /\ pc' = "read_open_json"
  /\ UNCHANGED <<json, release_str, provVars, diskVars, fetchVars>>

ReadJsonOpenFail_leak ==
  /\ pc = "read_open_json"
  /\ webos_release' = NULL
  /\ pc' = "check_release"
  /\ UNCHANGED <<readerVars, release_frees, found, msgs, calls, rets,
                 success, result, diskVars, fetchVars>>

\* lines 156-161: rjson_open_string fails, free(buf), return NULL
ReadJsonOpenFail ==
  /\ pc = "read_open_json"
  /\ rd' = [rd EXCEPT !.buf_free = @ + 1]
  /\ webos_release' = NULL
  /\ pc' = "check_release"
  /\ UNCHANGED <<json, release_str, release_frees, found, msgs, calls, rets,
                 success, result, diskVars, fetchVars>>

\* lines 156, 163: parser opened, release_str = NULL
ReadJsonOpenOk ==
  /\ pc = "read_open_json"
  /\ rd' = [rd EXCEPT !.json_new = @ + 1]
  /\ release_str' = NULL
  /\ pc' = "read_loop"
  /\ UNCHANGED <<json, provVars, diskVars, fetchVars>>

\* line 165: rjson_next gives DONE or ERROR, the loop ends
ReadLoopEnd ==
  /\ pc = "read_loop"
  /\ \E t \in rjson_next(json) :
       /\ t.type \in Terminal
       /\ json' = Advance(json, t)
  /\ pc' = "read_cleanup"
  /\ UNCHANGED <<rd, release_str, provVars, diskVars, fetchVars>>

\* lines 165-167: a token that is no string, next iteration
ReadLoopOther ==
  /\ pc = "read_loop"
  /\ \E t \in rjson_next(json) :
       /\ t.type \notin Terminal \cup {"RJSON_STRING"}
       /\ json' = Advance(json, t)
  /\ pc' = "read_loop"
  /\ UNCHANGED <<rd, release_str, provVars, diskVars, fetchVars>>

\* lines 167-173: a string and the token after it, which do not match
ReadLoopPair ==
  /\ pc = "read_loop"
  /\ \E t \in rjson_next(json) :
       /\ t.type = "RJSON_STRING"
       /\ \E v \in rjson_next(Advance(json, t)) :
            /\ ~KeyMatches(t.str, v.type)
            /\ json' = Advance(Advance(json, t), v)
  /\ pc' = "read_loop"
  /\ UNCHANGED <<rd, release_str, provVars, diskVars, fetchVars>>

\* lines 167-180: the key matches and its value is a string: strndup, break
ReadLoopMatch ==
  /\ pc = "read_loop"
  /\ \E t \in rjson_next(json) :
       /\ t.type = "RJSON_STRING"
       /\ \E v \in rjson_next(Advance(json, t)) :
            /\ KeyMatches(t.str, v.type)
            /\ \E rest \in Terminal :
                 json' = [Advance(Advance(json, t), v) EXCEPT !.rest = rest]
            /\ release_str' = IF v.str # NULL THEN v.str ELSE release_str
  /\ pc' = "read_cleanup"
  /\ UNCHANGED <<rd, provVars, diskVars, fetchVars>>

\* lines 184-187: rjson_free (the parser is gone), free(buf), return release_str
ReadCleanup ==
  /\ pc = "read_cleanup"
  /\ rd' = [rd EXCEPT !.json_free = @ + 1, !.buf_free = @ + 1]
  /\ json' = NoJson
  /\ webos_release' = release_str
  /\ pc' = "check_release"
  /\ UNCHANGED <<release_str, release_frees, found, msgs, calls, rets,
                 success, result, diskVars, fetchVars>>

(* ----------------- apply_webos_jailer_fix (lines 190-255) --------------- *)

\* the Artifact Existence Check of one path: present and not empty
path_is_valid(p) == fs[p].exists /\ Len(fs[p].bytes) > 0

\* a step of the orchestrator that is no return from http_download_file
OrchFrame == UNCHANGED <<readerVars, diskVars, fetchVars>>

ReleaseAbsent_proceed ==
  /\ pc = "check_release"
  /\ webos_release = NULL
  /\ pc' = "notify"
  /\ UNCHANGED <<webos_release, release_frees, found, msgs, calls, rets, success,
                 result>>
  /\ OrchFrame

\* lines 196-197: no identifier, return false
ReleaseAbsent ==
  /\ pc = "check_release"
  /\ webos_release = NULL
  /\ result' = FALSE
  /\ pc' = "done"
  /\ UNCHANGED <<webos_release, release_frees, found, msgs, calls, rets, success>>
  /\ OrchFrame

\* lines 196-208: the identifier is there; the two paths are examined, and the
\* only effect of finding both valid is a log line (the return is commented out)
CheckArtifacts ==
  /\ pc = "check_release"
  /\ webos_release # NULL
  /\ found' = (path_is_valid(conf_path) /\ path_is_valid(sig_path))
  /\ pc' = "notify"
  /\ UNCHANGED <<webos_release, release_frees, msgs, calls, rets, success, result>>
  /\ OrchFrame

\* lines 210-233: push the notification, build the URLs, success = true
Notify ==
  /\ pc = "notify"
  /\ msgs' = Append(msgs, "webOS: Downloading jailer configuration files")
  /\ success' = TRUE
  /\ pc' = "call_conf"
  /\ UNCHANGED <<webos_release, release_frees, found, calls, rets, result>>
  /\ OrchFrame

\* entering http_download_file(url, dst): fresh locals
Invoke(url, dst) ==
  /\ calls' = Append(calls, [url |-> url, dst |-> dst])
  /\ st' = NoSt
  /\ before' = [dirs |-> dirs, fs |-> fs]
  /\ pc' = "dl_mkdir"
  /\ UNCHANGED <<readerVars, webos_release, release_frees, found, msgs, rets,
                 success, result, dirs, fs, start, res, ret>>

\* line 235: http_download_file(conf_url, "/media/developer/temp/test.1")
CallConf ==
  /\ pc = "call_conf"
  /\ Invoke(conf_url(webos_release), test1_path)

\* line 243: http_download_file(sig_url, "/media/developer/temp/test.2")
CallSig ==
  /\ pc = "call_sig"
  /\ Invoke(sig_url(webos_release), test2_path)

\* http_download_file has returned: its locals are gone
Returned == st' = NoSt /\ UNCHANGED <<readerVars, diskVars, res, ret>>

\* lines 235-250: if (!http_download_file(...)) success = false
Failed(s, r) == IF ~r THEN FALSE ELSE s

ReturnConf_abort ==
  /\ pc = "dl_ret"
  /\ call = 1
  /\ rets' = Append(rets, ret)
  /\ success' = Failed(success, ret)
  /\ pc' = IF ret THEN "call_sig" ELSE "free_release"
  /\ UNCHANGED <<webos_release, release_frees, found, msgs, calls, result>>
  /\ Returned

\* lines 235-241: the configuration download returned
ReturnConf ==
  /\ pc = "dl_ret"
  /\ call = 1
  /\ rets' = Append(rets, ret)
  /\ success' = Failed(success, ret)
  /\ pc' = "call_sig"
  /\ UNCHANGED <<webos_release, release_frees, found, msgs, calls, result>>
  /\ Returned

ReturnSig_last ==
  /\ pc = "dl_ret"
  /\ call = 2
  /\ rets' = Append(rets, ret)
  /\ success' = ret
  /\ pc' = "free_release"
  /\ UNCHANGED <<webos_release, release_frees, found, msgs, calls, result>>
  /\ Returned

\* lines 243-250: the signature download returned
ReturnSig ==
  /\ pc = "dl_ret"
  /\ call = 2
  /\ rets' = Append(rets, ret)
  /\ success' = Failed(success, ret)
  /\ pc' = "free_release"
  /\ UNCHANGED <<webos_release, release_frees, found, msgs, calls, result>>
  /\ Returned

\* lines 252-254: free(webos_release); return success
FreeRelease ==
  /\ pc = "free_release"
  /\ release_frees' = release_frees + 1
  /\ result' = success
  /\ pc' = "done"
  /\ UNCHANGED <<webos_release, found, msgs, calls, rets, success>>
  /\ OrchFrame

(* ------------------- http_download_file (lines 30-132) ----------------- *)

\* net_http_connection_free(conn)
net_http_connection_free(r) == [r EXCEPT !.conn_free = @ + 1]

\* net_http_delete(http): releases the transfer handle and, through it, the
\* connection it was created on
net_http_delete(r) == [r EXCEPT !.http_delete = @ + 1, !.conn_free = @ + 1]

\* free(data)
free_data(r) == [r EXCEPT !.data_free = @ + 1]

Is2xx_loose(status) == CDiv(status, 100) >= 2

\* line 90: status / 100 != 2 is the failure
Is2xx(status) == CDiv(status, 100) = 2

NoPayload_nullonly(data, len) == data.null

\* line 100: !data || len == 0
NoPayload(data, len) == data.null \/ len = 0

\* what net_http_data(http, &len, true) may hand back
Payloads == {NullData} \cup {Data(b) : b \in Bodies}

\* return v from http_download_file
Return(v) == ret' = v /\ pc' = "dl_ret"

\* a step inside http_download_file leaves the callers' state alone
FetchFrame == UNCHANGED <<readerVars, provVars>>

\* lines 34-41: the destination directory is a directory already
DirExists ==
  /\ pc = "dl_mkdir"
  /\ DirOf(dst_path) \in dirs
  /\ pc' = "dl_conn"
  /\ UNCHANGED <<diskVars, fetchVars>>
  /\ FetchFrame

\* lines 41-46: it is not, and path_mkdir creates it
MkdirOk ==
  /\ pc = "dl_mkdir"
  /\ DirOf(dst_path) \notin dirs
  /\ dirs' = dirs \cup WithParents(DirOf(dst_path))
  /\ pc' = "dl_conn"
  /\ UNCHANGED <<fs, start, before, fetchVars>>
  /\ FetchFrame

MkdirFail_return ==
  /\ pc = "dl_mkdir"
  /\ DirOf(dst_path) \notin dirs
  /\ st' = [st EXCEPT !.mkdir_failed = TRUE]
  /\ Return(FALSE)
  /\ UNCHANGED <<diskVars, res>>
  /\ FetchFrame

\* lines 41-44: it is not, and path_mkdir fails: logged, not returned
MkdirFail ==
  /\ pc = "dl_mkdir"
  /\ DirOf(dst_path) \notin dirs
  /\ st' = [st EXCEPT !.mkdir_failed = TRUE]
  /\ pc' = "dl_conn"
  /\ UNCHANGED <<diskVars, res, ret>>
  /\ FetchFrame

\* lines 50-55: net_http_connection_new fails
ConnNewFail ==
  /\ pc = "dl_conn"
  /\ Return(FALSE)
  /\ UNCHANGED <<diskVars, res, st>>
  /\ FetchFrame

\* line 50: net_http_connection_new gives a connection
ConnNewOk ==
  /\ pc = "dl_conn"
  /\ res' = [res EXCEPT ![call].conn_new = @ + 1]
  /\ st' = [st EXCEPT !.conn_ok = TRUE]
  /\ pc' = "dl_http"
  /\ UNCHANGED <<diskVars, ret>>
  /\ FetchFrame

\* lines 57-64: net_http_new fails, the connection is freed explicitly
HttpNewFail ==
  /\ pc = "dl_http"
  /\ res' = [res EXCEPT ![call] = net_http_connection_free(@)]
  /\ Return(FALSE)
  /\ UNCHANGED <<diskVars, st>>
  /\ FetchFrame

\* line 57: net_http_new gives a transfer handle
HttpNewOk ==
  /\ pc = "dl_http"
  /\ res' = [res EXCEPT ![call].http_new = @ + 1]
  /\ st' = [st EXCEPT !.http_ok = TRUE]
  /\ pc' = "dl_loop"
  /\ UNCHANGED <<diskVars, ret>>
  /\ FetchFrame

PollDone_stay ==
  /\ pc = "dl_loop"
  /\ st' = [st EXCEPT !.done = TRUE]
  /\ pc' = IF st.done THEN "dl_error" ELSE "dl_loop"
  /\ UNCHANGED <<diskVars, res, ret>>
  /\ FetchFrame

\* line 69: net_http_connection_done(conn) holds, the loop is left
PollDone ==
  /\ pc = "dl_loop"
  /\ st' = [st EXCEPT !.done = TRUE]
  /\ pc' = "dl_error"
  /\ UNCHANGED <<diskVars, res, ret>>
  /\ FetchFrame

\* lines 69-78: not done, net_http_update succeeds, next iteration
PollUpdateOk ==
  /\ pc = "dl_loop"
  /\ st.polls < MaxPolls
  /\ st' = [st EXCEPT !.polls = @ + 1]
  /\ pc' = "dl_loop"
  /\ UNCHANGED <<diskVars, res, ret>>
  /\ FetchFrame

PollUpdateFail_leak ==
  /\ pc = "dl_loop"
  /\ st' = [st EXCEPT !.update_failed = TRUE]
  /\ Return(FALSE)
  /\ UNCHANGED <<diskVars, res>>
  /\ FetchFrame

\* lines 69-77: not done, net_http_update fails
PollUpdateFail ==
  /\ pc = "dl_loop"
  /\ st' = [st EXCEPT !.update_failed = TRUE]
  /\ res' = [res EXCEPT ![call] = net_http_delete(@)]
  /\ Return(FALSE)
  /\ UNCHANGED diskVars
  /\ FetchFrame

\* lines 81-86: net_http_error(http) is set
TransportError ==
  /\ pc = "dl_error"
  /\ st' = [st EXCEPT !.error_read = TRUE, !.error = TRUE]
  /\ res' = [res EXCEPT ![call] = net_http_delete(@)]
  /\ Return(FALSE)
  /\ UNCHANGED diskVars
  /\ FetchFrame

\* line 81: net_http_error(http) is clear
NoTransportError ==
  /\ pc = "dl_error"
  /\ st' = [st EXCEPT !.error_read = TRUE, !.error = FALSE]
  /\ pc' = "dl_status"
  /\ UNCHANGED <<diskVars, res, ret>>
  /\ FetchFrame

\* lines 88-95: the status is not 2xx
StatusRejected ==
  /\ pc = "dl_status"
  /\ \E status \in Statuses :
       /\ ~Is2xx(status)
       /\ st' = [st EXCEPT !.status_read = TRUE, !.status = status]
  /\ res' = [res EXCEPT ![call] = net_http_delete(@)]
  /\ Return(FALSE)
  /\ UNCHANGED diskVars
  /\ FetchFrame

\* lines 88-90: the status is 2xx
StatusAccepted ==
  /\ pc = "dl_status"
  /\ \E status \in Statuses :
       /\ Is2xx(status)
       /\ st' = [st EXCEPT !.status_read = TRUE, !.status = status]
  /\ pc' = "dl_data"
  /\ UNCHANGED <<diskVars, res, ret>>
  /\ FetchFrame

DataEmpty_truncate ==
  /\ pc = "dl_data"
  /\ \E data \in Payloads :
       /\ NoPayload(data, Len(data.bytes))
       /\ st' = [st EXCEPT !.data_read = TRUE, !.data = data, !.len = Len(data.bytes)]
       /\ res' = [res EXCEPT ![call] =
                    net_http_delete([@ EXCEPT !.data_new = IF data.null THEN @ ELSE @ + 1])]
  /\ fs' = IF DirOf(dst_path) \in dirs THEN [fs EXCEPT ![dst_path] = File(<<>>)] ELSE fs
  /\ Return(FALSE)
  /\ UNCHANGED <<dirs, start, before>>
  /\ FetchFrame

\* lines 97-105: no data or no bytes: net_http_delete, return false
DataEmpty ==
  /\ pc = "dl_data"
  /\ \E data \in Payloads :
       /\ NoPayload(data, Len(data.bytes))
       /\ st' = [st EXCEPT !.data_read = TRUE, !.data = data, !.len = Len(data.bytes)]
       /\ res' = [res EXCEPT ![call] =
                    net_http_delete([@ EXCEPT !.data_new = IF data.null THEN @ ELSE @ + 1])]
  /\ Return(FALSE)
  /\ UNCHANGED diskVars
  /\ FetchFrame

\* lines 97-100: the body is in the buffer data, len bytes long
DataOk ==
  /\ pc = "dl_data"
  /\ \E data \in Payloads :
       /\ ~NoPayload(data, Len(data.bytes))
       /\ st' = [st EXCEPT !.data_read = TRUE, !.data = data, !.len = Len(data.bytes)]
  /\ res' = [res EXCEPT ![call].data_new = @ + 1]
  /\ pc' = "dl_fopen"
  /\ UNCHANGED <<diskVars, ret>>
  /\ FetchFrame

\* lines 107-114: fopen(dst_path, "wb") fails
FopenFail ==
  /\ pc = "dl_fopen"
  /\ res' = [res EXCEPT ![call] = net_http_delete(free_data(@))]
  /\ Return(FALSE)
  /\ UNCHANGED <<diskVars, st>>
  /\ FetchFrame

\* line 107: fopen(dst_path, "wb") creates or truncates the file; its
\* directory has to exist for that
FopenOk ==
  /\ pc = "dl_fopen"
  /\ DirOf(dst_path) \in dirs
  /\ fs' = [fs EXCEPT ![dst_path] = File(<<>>)]
  /\ res' = [res EXCEPT ![call].out_open = @ + 1]
  /\ st' = [st EXCEPT !.out_ok = TRUE]
  /\ pc' = "dl_fwrite"
  /\ UNCHANGED <<dirs, start, before, ret>>
  /\ FetchFrame

\* fwrite put the first n bytes of data into the file; fclose, free, delete
Written(n) ==
  /\ fs' = [fs EXCEPT ![dst_path] = File(Prefix(st.data.bytes, n))]
  /\ st' = [st EXCEPT !.written = TRUE, !.wrote = n]
  /\ res' = [res EXCEPT ![call] =
               net_http_delete(free_data([@ EXCEPT !.out_close = @ + 1]))]
  /\ UNCHANGED <<dirs, start, before>>
  /\ FetchFrame

ShortWrite_ok ==
  /\ pc = "dl_fwrite"
  /\ \E n \in 0..(st.len - 1) : Written(n)
  /\ Return(TRUE)

\* lines 116-124: wrote != len
ShortWrite ==
  /\ pc = "dl_fwrite"
  /\ \E n \in 0..(st.len - 1) : Written(n)
  /\ Return(FALSE)

\* lines 116-131: wrote == len
FullWrite ==
  /\ pc = "dl_fwrite"
  /\ Written(st.len)
  /\ Return(TRUE)

(* --------------------------- specification ----------------------------- *)

Next ==
  \/ ReadFopenFail
  \/ ReadFopenOk
  \/ ReadMallocFail
  \/ ReadMallocOk
  \/ ReadJsonOpenFail
  \/ ReadJsonOpenOk
  \/ ReadLoopEnd
  \/ ReadLoopOther
  \/ ReadLoopPair
  \/ ReadLoopMatch
  \/ ReadCleanup
  \/ ReleaseAbsent
  \/ CheckArtifacts
  \/ Notify
  \/ CallConf
  \/ ReturnConf
  \/ CallSig
  \/ ReturnSig
  \/ FreeRelease
  \/ DirExists
  \/ MkdirOk
  \/ MkdirFail
  \/ ConnNewFail
  \/ ConnNewOk
  \/ HttpNewFail
  \/ HttpNewOk
  \/ PollDone
  \/ PollUpdateOk
  \/ PollUpdateFail
  \/ TransportError
  \/ NoTransportError
  \/ StatusRejected
  \/ StatusAccepted
  \/ DataEmpty
  \/ DataOk
  \/ FopenFail
  \/ FopenOk
  \/ ShortWrite
  \/ FullWrite

Spec == Init /\ [][Next]_vars

\* a run that starts with no file and no directory
InitLive == Init /\ dirs = {} /\ fs = [p \in Paths |-> NoFile]

\* the thread keeps running: the program is sequential and nothing but a
\* library call that never returns can stop it
SpecLive == InitLive /\ [][Next]_vars /\ WF_vars(Next)

TypeOK ==
  /\ pc \in {"read_fopen", "read_malloc", "read_open_json", "read_loop",
             "read_cleanup", "check_release", "notify", "call_conf", "call_sig",
             "free_release", "done", "dl_mkdir", "dl_conn", "dl_http", "dl_loop",
             "dl_error", "dl_status", "dl_data", "dl_fopen", "dl_fwrite", "dl_ret"}
  /\ webos_release \in Strings \cup {NULL}
  /\ Len(calls) \in 0..2
  /\ Len(rets) <= Len(calls)
  /\ dirs \subseteq Dirs
  /\ \A p \in Paths : fs[p].exists => DirOf(p) \in dirs

(* ------------------------------ claims --------------------------------- *)

\* http_download_file invocation i has returned (or is returning)
Finished(i) == i <= Len(rets) \/ (i = call /\ pc = "dl_ret")

\* the download phase (line 210 onward) was entered
DownloadPhase == msgs # <<>>

\* the Artifact Existence Check on the files as they were on entry
ValidAtStart ==
  \A p \in {conf_path, sig_path} : start.fs[p].exists /\ Len(start.fs[p].bytes) > 0

\* C1: fast path - when the identifier is present and the configuration file
\* and its signature both exist and are valid before the call, the run returns
\* true and invokes no download.
C1_FastPath ==
  (pc = "done" /\ webos_release # NULL /\ ValidAtStart)
     => (result = TRUE /\ calls = <<>>)

\* C2: identifier required - when the Identifier Reader yields Absent the run
\* returns false, invokes no download, pushes no download notification and
\* leaves every file and directory as it was.
C2_IdentifierRequired ==
  (pc = "done" /\ webos_release = NULL)
     => /\ result = FALSE
        /\ calls = <<>>
        /\ msgs = <<>>
        /\ fs = start.fs
        /\ dirs = start.dirs

\* a document was parsed to its end without a match, and the run returned
C2_Witness ==
  pc = "done" /\ webos_release = NULL /\ rd.json_free = 1 /\ result = FALSE

\* C3: no early abort, no retries - the downloader is invoked for the
\* configuration artifact first and the signature artifact second, never more
\* than once each, and a run that reached the download phase has made and
\* completed both invocations whatever the first one returned.
C3_NoEarlyAbortNoRetry ==
  /\ Len(calls) <= 2
  /\ \A i \in 1..Len(calls) :
       calls[i].url = (IF i = 1 THEN conf_url(webos_release) ELSE sig_url(webos_release))
  /\ Len(calls) = 2 => Len(rets) >= 1
  /\ (pc = "done" /\ DownloadPhase) => (Len(calls) = 2 /\ Len(rets) = 2)

\* the first download failed, the second succeeded, the run returned
C3_Witness == pc = "done" /\ rets = <<FALSE, TRUE>>

\* C4: aggregate outcome - a run that reached the download phase returns the
\* logical AND of the two values the downloader returned.
C4_AggregateIsAnd ==
  (pc = "done" /\ DownloadPhase)
     => (Len(rets) = 2 /\ result = (rets[1] /\ rets[2]))

\* both downloads succeeded and the run returned true
C4_Witness == pc = "done" /\ rets = <<TRUE, TRUE>> /\ result = TRUE

\* C5: handle hygiene - when an invocation of the downloader returns, every
\* connection and transfer handle it acquired has been released exactly once
\* (the connection explicitly only when no transfer handle was created).
C5_HandleHygiene ==
  \A i \in 1..2 :
     /\ res[i].conn_free <= res[i].conn_new
     /\ res[i].http_delete <= res[i].http_new
     /\ Finished(i) => /\ res[i].conn_free = res[i].conn_new
                       /\ res[i].http_delete = res[i].http_new

\* an advance step failed with both handles acquired, and the call returns
C5_Witness ==
  /\ pc = "dl_ret"
  /\ st.update_failed
  /\ res[call].conn_new = 1
  /\ res[call].http_new = 1

\* C6: body-buffer hygiene - a non-null buffer handed out by the materialize
\* step has been released exactly once when the invocation returns.
C6_BufferHygiene ==
  \A i \in 1..2 : Finished(i) => res[i].data_free = res[i].data_new

\* C7: status gating - a transfer that completed with a status outside
\* 200..299 makes the downloader return false without opening the destination,
\* which is left as it was on entry.
C7_StatusGating ==
  (pc = "dl_ret" /\ st.status_read /\ st.status \notin 200..299)
     => /\ ret = FALSE
        /\ res[call].out_open = 0
        /\ fs[dst_path] = before.fs[dst_path]

\* a negative status was rejected while the destination file existed
C7_Witness ==
  pc = "dl_ret" /\ st.status_read /\ st.status = -200 /\ fs[dst_path].exists

\* C8: empty-body gating - a 2xx transfer whose materialized body is null or
\* zero bytes long makes the downloader return false.
C8_EmptyBodyGating ==
  (/\ pc = "dl_ret"
   /\ st.data_read
   /\ st.status \in 200..299
   /\ (st.data.null \/ Len(st.data.bytes) = 0))
     => ret = FALSE

\* a non-null buffer of length zero after a 2xx status
C8_Witness ==
  pc = "dl_ret" /\ st.data_read /\ ~st.data.null /\ st.len = 0 /\ st.status = 204

\* every step of the invocation went well
AllStepsOk ==
  /\ st.conn_ok
  /\ st.http_ok
  /\ st.done /\ ~st.update_failed
  /\ st.error_read /\ ~st.error
  /\ st.status_read /\ st.status \in 200..299
  /\ st.data_read /\ ~st.data.null /\ Len(st.data.bytes) > 0
  /\ st.out_ok
  /\ st.written /\ st.wrote = Len(st.data.bytes)

\* C9: the downloader returns true exactly when every step went well, and
\* then the destination file holds exactly the response body.
C9_FetchContract ==
  pc = "dl_ret"
     => /\ ret = TRUE <=> AllStepsOk
        /\ ret = TRUE => fs[dst_path] = File(st.data.bytes)

\* a successful download replaced different prior content
C9_Witness ==
  /\ pc = "dl_ret"
  /\ ret = TRUE
  /\ before.fs[dst_path] = File(<<1>>)
  /\ fs[dst_path] = File(<<0, 0>>)

\* C10: a run with the identifier present, the two artifacts absent on entry
\* and both downloads successful returns true and leaves valid files at the
\* two paths the Existence Check examines.
C10_ArtifactsProvisioned ==
  (/\ pc = "done"
   /\ webos_release # NULL
   /\ ~start.fs[conf_path].exists
   /\ ~start.fs[sig_path].exists
   /\ rets = <<TRUE, TRUE>>)
     => /\ result = TRUE
        /\ path_is_valid(conf_path)
        /\ path_is_valid(sig_path)

\* C11: the identifier is non-empty whenever present - the reader never hands
\* back an empty string, and no download URL is built from one.
C11_IdentifierNonEmpty ==
  /\ webos_release # ""
  /\ \A i \in 1..Len(calls) : calls[i].url.sdkVersion # ""

\* C12: poll-loop termination - every invocation of the downloader returns
\* (the transport reports done or fails an advance step within MaxPolls
\* steps); the loop is left only for the error-flag check once the connection
\* reported done, or by returning false once an advance step failed; and no
\* advance step follows the done report.
C12_PollLoopTerminates ==
  /\ (pc = "dl_mkdir") ~> (pc = "dl_ret")
  /\ [][/\ pc = "dl_loop" =>
             \/ pc' = "dl_loop" /\ ~st'.done /\ st'.polls = st.polls + 1
             \/ pc' = "dl_error" /\ st'.done /\ st'.polls = st.polls
             \/ pc' = "dl_ret" /\ st'.update_failed /\ ret' = FALSE
        /\ (st.done /\ st'.done) => (st'.polls = st.polls /\ ~st'.update_failed)
        /\ pc' = "dl_error" => pc = "dl_loop"]_vars

\* the connection reported done after two advance steps
C12_Witness == pc = "dl_error" /\ st.done /\ st.polls = 2

\* the positions of toks[i..] that hold the key of an object member, given the
\* containers open before toks[i] and whether a key is due
RECURSIVE MemberKeys(_, _, _, _)
MemberKeys(toks, i, stack, key) ==
  IF i > Len(toks) THEN {}
  ELSE LET ty == toks[i].type
           isKey == Top(stack) = "O" /\ key /\ ty = "RJSON_STRING"
           next == IF ty \in {"RJSON_STRING", "RJSON_NUMBER"}
                     THEN Top(stack) = "O" /\ ~key
                     ELSE Top(Push(stack, ty)) = "O"
       IN (IF isKey THEN {i} ELSE {}) \cup MemberKeys(toks, i + 1, Push(stack, ty), next)

\* the member keys, at any depth, that equal the field name
FieldKeys(toks) ==
  {i \in MemberKeys(toks, 1, <<>>, FALSE) : toks[i].str = "webos_release"}

Least(S) == CHOOSE i \in S : \A k \in S : i <= k

\* C13: first match wins - the first member whose key is the field name
\* decides the result: its value if that is a string, with no token read
\* after it, and Absent if it is not a string.
C13_FirstMatchWins ==
  (/\ pc = "read_cleanup"
   /\ FieldKeys(json.toks) # {}
   /\ Least(FieldKeys(json.toks)) < Len(json.toks))
     => LET v == Least(FieldKeys(json.toks)) + 1
        IN IF json.toks[v].type = "RJSON_STRING"
             THEN /\ release_str = json.toks[v].str
                  /\ Len(json.toks) = v
                  /\ json.end = "none"
             ELSE release_str = NULL

\* the document does not parse: the parser reported an error, or the input a
\* break left unread holds one
ParseFails == json.end = "RJSON_ERROR" \/ json.rest = "RJSON_ERROR"

\* C14: parse failure yields Absent - the reader's result is Absent for every
\* document that fails to parse, wherever in it the error lies.
C14_ParseFailureAbsent ==
  (pc = "read_cleanup" /\ ParseFails) => release_str = NULL

\* the positions of toks[i..] that hold a key of the top-level object
RECURSIVE TopLevelKeys(_, _, _, _)
TopLevelKeys(toks, i, stack, key) ==
  IF i > Len(toks) THEN {}
  ELSE LET ty == toks[i].type
           isKey == stack = <<"O">> /\ key /\ ty = "RJSON_STRING"
           next == IF ty \in {"RJSON_STRING", "RJSON_NUMBER"}
                     THEN Top(stack) = "O" /\ ~key
                     ELSE Top(Push(stack, ty)) = "O"
       IN (IF isKey THEN {i} ELSE {}) \cup TopLevelKeys(toks, i + 1, Push(stack, ty), next)

\* the string value of the first top-level key that is the field name and has
\* a string value; NULL when there is none
TopLevelValue(toks) ==
  LET K == {i \in TopLevelKeys(toks, 1, <<>>, FALSE) :
              /\ toks[i].str = "webos_release"
              /\ i < Len(toks)
              /\ toks[i + 1].type = "RJSON_STRING"}
  IN IF K = {} THEN NULL ELSE toks[Least(K) + 1].str

\* C15: only top-level key/value pairs are scanned - the result is the string
\* value of the top-level key with the field name, Absent when the top-level
\* object has no such key; the field name as a nested key, an array element
\* or a value never matches.
C15_TopLevelOnly ==
  pc = "read_cleanup" => release_str = TopLevelValue(json.toks)

\* what invocation i still holds of each transfer resource
Held(i) ==
  [conn |-> res[i].conn_new - res[i].conn_free,
   http |-> res[i].http_new - res[i].http_delete,
   data |-> res[i].data_new - res[i].data_free,
   out  |-> res[i].out_open - res[i].out_close]

NothingHeld == [conn |-> 0, http |-> 0, data |-> 0, out |-> 0]

\* C16: sequential, disjoint transfer state - at most one connection and one
\* transfer handle are live at a time, the second invocation acquires
\* nothing before the first has returned, and an invocation that has
\* returned holds no connection, transfer handle, body buffer or file handle.
C16_SequentialDisjoint ==
  /\ Held(1).conn + Held(2).conn <= 1
  /\ Held(1).http + Held(2).http <= 1
  /\ res[2] # NoRes => Len(rets) >= 1
  /\ \A i \in 1..2 : Finished(i) => Held(i) = NothingHeld

\* C17: best-effort directory creation - when the destination directory is
\* missing and cannot be created the downloader does not return there but
\* goes on to open the connection; the destination is then never opened, and
\* the call returns false, as an open failure if the transfer got that far.
C17_BestEffortMkdir ==
  /\ [](st.mkdir_failed =>
          /\ ~st.out_ok
          /\ res[call].out_open = 0
          /\ pc = "dl_ret" => ret = FALSE)
  /\ [][(pc = "dl_mkdir" /\ DirOf(dst_path) \notin dirs) => pc' = "dl_conn"]_vars

\* mkdir failed, the transfer delivered a body, the open failed
C17_Witness ==
  /\ pc = "dl_ret"
  /\ st.mkdir_failed
  /\ st.data_read
  /\ st.len > 0
  /\ ret = FALSE

ReaderPcs == {"read_fopen", "read_malloc", "read_open_json", "read_loop", "read_cleanup"}

FetchPcs == {"dl_mkdir", "dl_conn", "dl_http", "dl_loop", "dl_error", "dl_status",
             "dl_data", "dl_fopen", "dl_fwrite", "dl_ret"}

\* C18: identifier and reader resources - the identifier string is freed
\* exactly once before the run returns whenever it was obtained, never
\* otherwise and never used after the free; the reader has released its read
\* buffer, its parser and its file handle exactly once each when it returns.
C18_IdentifierAndReaderResources ==
  /\ release_frees <= 1
  /\ release_frees = 1 => (pc = "done" /\ webos_release # NULL)
  /\ pc = "done" => release_frees = (IF webos_release # NULL THEN 1 ELSE 0)
  /\ rd.buf_free <= rd.buf_new /\ rd.json_free <= rd.json_new /\ rd.f_close <= rd.f_open
  /\ pc \notin ReaderPcs => /\ rd.buf_free = rd.buf_new
                            /\ rd.json_free = rd.json_new
                            /\ rd.f_close = rd.f_open

\* a run that obtained an identifier from a parsed document has returned
C18_Witness ==
  pc = "done" /\ release_frees = 1 /\ rd.buf_free = 1 /\ rd.json_free = 1

\* C19: the destination is opened only after the transfer completed without
\* error with a 2xx status and a non-empty body; until it is opened the
\* destination file is as it was on entry, no other file is ever touched, and
\* a false return after the body was accepted is an open failure or a short
\* write.
C19_OpenOnlyAfterChecks ==
  pc \in FetchPcs =>
    /\ \A p \in Paths \ {dst_path} : fs[p] = before.fs[p]
    /\ res[call].out_open = 0 => fs[dst_path] = before.fs[dst_path]
    /\ res[call].out_open > 0 =>
         /\ st.done /\ ~st.update_failed
         /\ st.error_read /\ ~st.error
         /\ st.status_read /\ st.status \in 200..299
         /\ st.data_read /\ ~st.data.null /\ Len(st.data.bytes) > 0
    /\ (pc = "dl_ret" /\ ret = FALSE /\ st.data_read /\ ~st.data.null /\ st.len > 0) =>
         (res[call].out_open = 0 \/ (st.written /\ st.wrote # st.len))

\* an empty body was refused and the existing destination file is untouched
C19_Witness ==
  /\ pc = "dl_ret"
  /\ st.data_read
  /\ st.len = 0
  /\ before.fs[dst_path] = File(<<1>>)
  /\ fs[dst_path] = File(<<1>>)

====
